---- MODULE Spec2Model ----
(***************************************************************************)
(* Model of recent_stats_evaluation.py: the outcome labeller, the rolling  *)
(* window generator, the multi-player aggregator, the correlation reducer  *)
(* and the chunked, retried Statcast fetch.                                *)
(*                                                                         *)
(* A DataFrame is a sequence of rows (records); every row carries the      *)
(* index label pandas keeps for it (its position in the frame it was read  *)
(* from).  A cell of a nullable float column is a tuple: NaN is <<>>, the  *)
(* number n is <<n>>, and the mean s/w of a window of w values is <<s, w>> *)
(* (exact arithmetic; within one window size all means share w).           *)
(***************************************************************************)
EXTENDS Integers, Sequences, FiniteSets, TLC

\* ------------------------------------------------------------------ bounds
MaxLen == 3          \* longest timeline of the unit-level inputs
MaxDate == 2         \* game_date values 1..MaxDate of the unit-level inputs
MaxWin == 3          \* max_window passed to compute_rolling_stats directly
MaxLabelLen == 2     \* longest frame handed to get_pa_outcomes alone

\* ------------------------------------------------------- cells and helpers
NaN == <<>>
Num(n) == <<n>>
Mean(s, w) == <<s, w>>
notna(c) == c # NaN

RECURSIVE SumRange(_, _, _)
\* x[lo] + ... + x[hi], by halving (0 for an empty range)
SumRange(x, lo, hi) ==
    IF lo > hi THEN 0
    ELSE IF lo = hi THEN x[lo]
    ELSE LET m == (lo + hi) \div 2
         IN SumRange(x, lo, m) + SumRange(x, m + 1, hi)

RECURSIVE concat(_, _, _)
\* pd.concat of the frames f[lo], ..., f[hi], in order
concat(f, lo, hi) ==
    IF lo > hi THEN <<>>
    ELSE IF lo = hi THEN f[lo]
    ELSE LET m == (lo + hi) \div 2
         IN concat(f, lo, m) \o concat(f, m + 1, hi)

\* the sequence f as an explicit tuple (evaluated once, not at every use)
AsTuple(f) == <<>> \o f

Column(df, c) == AsTuple([k \in 1..Len(df) |-> df[k][c]])

\* --------------------------------------------------------- outcome labeller
NoEvent == "nan"     \* the events cell of a pitch that ended no plate appearance
HitEvents == {"single", "double", "triple", "home_run"}
\* the on-base list without its last entry
OnBaseEvents_NoHitByPitch == {"single", "double", "triple", "home_run", "walk"}
OnBaseEvents == {"single", "double", "triple", "home_run", "walk", "hit_by_pitch"}
BasesMap == [single |-> 1, double |-> 2, triple |-> 3, home_run |-> 4]

\* Series.isin(values).astype(int)
isin(e, values) == IF e \in values THEN 1 ELSE 0

\* Series.map(dict).fillna(0): a key the dict lacks maps to NaN, then to 0
map_fillna0(e) == IF e \in DOMAIN BasesMap THEN BasesMap[e] ELSE 0

get_pa_outcomes(df) ==
    [k \in 1..Len(df) |->
        [index |-> df[k].index,
         batter |-> df[k].batter,
         game_date |-> df[k].game_date,
         events |-> df[k].events,
         is_hit |-> isin(df[k].events, HitEvents),
         is_on_base |-> isin(df[k].events, OnBaseEvents),
         total_bases |-> map_fillna0(df[k].events)]]

\* ------------------------------------------------ windowed feature generator
\* the sub-frame of the rows whose game_date is d, in frame order
rows_at(df, d) == SelectSeq(df, LAMBDA r : r.game_date = d)

RECURSIVE arrangements(_)
\* every ordering of the rows of s
arrangements(s) ==
    IF Len(s) <= 1 THEN {s}
    ELSE UNION {{<<s[k]>> \o t :
                    t \in arrangements(SubSeq(s, 1, k - 1) \o SubSeq(s, k + 1, Len(s)))} :
                k \in 1..Len(s)}

RECURSIVE ascending(_, _, _)
\* every ordering of the rows dated lo..hi that is ascending by game_date
ascending(df, lo, hi) ==
    IF lo > hi THEN {<<>>}
    ELSE IF lo = hi THEN arrangements(rows_at(df, lo))
    ELSE LET m == (lo + hi) \div 2
         IN {a \o b : a \in ascending(df, lo, m), b \in ascending(df, m + 1, hi)}

\* df.sort_values(by='game_date'): kind defaults to 'quicksort', which pandas
\* documents as not stable, so the order among rows of equal game_date is
\* unspecified.  The set of frames the call may return.
sort_values(df) ==
    IF Len(df) = 0 THEN {df}
    ELSE LET dates == {df[k].game_date : k \in 1..Len(df)}
             first == CHOOSE d \in dates : \A e \in dates : d <= e
             last == CHOOSE d \in dates : \A e \in dates : d >= e
         IN ascending(df, first, last)

\* the running totals of a column: cumsum(x)[k] = x[1] + ... + x[k-1]
cumsum(x) == AsTuple([k \in 1..(Len(x) + 1) |-> SumRange(x, 1, k - 1)])

\* rolling(window, min_periods=1).mean(): the mean of what the window holds so far
rolling_mean_min_periods_1(cum, window, i) ==
    IF i >= window THEN Mean(cum[i + 1] - cum[i + 1 - window], window)
    ELSE Mean(cum[i + 1] - cum[1], i)

\* Series.rolling(window).mean() at position i (1-based), from the column's
\* running totals: NaN until the window holds `window` observations
rolling_mean(cum, window, i) ==
    IF i >= window THEN Mean(cum[i + 1] - cum[i + 1 - window], window) ELSE NaN

\* Series.shift(1): the previous row's value, NaN on the first row
shift_forward(x, i) == IF i > 1 THEN Num(x[i - 1]) ELSE NaN

\* Series.shift(-1) at position i: the next row's value, NaN on the last row
shift_back(x, i) == IF i + 1 <= Len(x) THEN Num(x[i + 1]) ELSE NaN

\* the body of compute_rolling_stats' loop on the sorted frame df
rolling_table(df, max_window) ==
    LET hit == Column(df, "is_hit")
        onb == Column(df, "is_on_base")
        tbs == Column(df, "total_bases")
        cum_hit == cumsum(hit)
        cum_onb == cumsum(onb)
        cum_tbs == cumsum(tbs)
        temp == [window \in 1..max_window |->
                   [i \in 1..Len(df) |->
                      [index |-> df[i].index,
                       player_id |-> df[i].batter,
                       game_date |-> df[i].game_date,
                       rolling_window |-> window,
                       rolling_avg |-> rolling_mean(cum_hit, window, i),
                       rolling_obp |-> rolling_mean(cum_onb, window, i),
                       rolling_slg |-> rolling_mean(cum_tbs, window, i),
                       next_is_hit |-> shift_back(hit, i),
                       next_is_on_base |-> shift_back(onb, i),
                       next_total_bases |-> shift_back(tbs, i)]]]
    IN concat(temp, 1, max_window)

\* the tables compute_rolling_stats(df, max_window) may return
compute_rolling_stats(df, max_window) ==
    {rolling_table(s, max_window) : s \in sort_values(df)}

\* ------------------------------------------------------ correlation reducer
RECURSIVE group_rows(_, _, _, _)
\* the rows lo..hi of df split by the value of column by: key -> sub-frame
group_rows(df, by, lo, hi) ==
    IF lo > hi THEN <<>>
    ELSE IF lo = hi THEN df[lo][by] :> <<df[lo]>>
    ELSE LET m == (lo + hi) \div 2
             a == group_rows(df, by, lo, m)
             b == group_rows(df, by, m + 1, hi)
         IN [k \in DOMAIN a \cap DOMAIN b |-> a[k] \o b[k]] @@ a @@ b

\* df.groupby(by): each key's rows, in frame order
groupby(df, by) == group_rows(df, by, 1, Len(df))

\* the keys of a grouping in the ascending order groupby iterates them
sorted_keys(grouped) ==
    IF DOMAIN grouped = {} THEN <<>>
    ELSE LET keys == DOMAIN grouped
             first == CHOOSE k \in keys : \A j \in keys : k <= j
             last == CHOOSE k \in keys : \A j \in keys : k >= j
         IN SelectSeq([k \in 1..(last - first + 1) |-> first + k - 1],
                      LAMBDA k : k \in keys)

\* a coefficient strictly inside (-1, 1): its digits are not kept
Open == <<-1, 1>>
Sign(n) == IF n > 0 THEN 1 ELSE IF n < 0 THEN -1 ELSE 0

\* a coefficient that cannot be computed, written as 0
undefined_as_zero == Num(0)

\* the coefficient numpy returns for 0 / 0
undefined == NaN

\* Series.corr(other), Pearson: over the rows where both cells are present;
\* NaN with no such row, with one, or when either operand does not vary
\* (numpy divides 0 by 0).  All cells of one operand share their denominator
\* (the group's window size), so the numerators decide; r is +1 or -1 exactly
\* when the pairs are collinear.
corr(xs, ys) ==
    LET valid == {k \in 1..Len(xs) : notna(xs[k]) /\ notna(ys[k])}
    IN IF valid = {} THEN undefined
       ELSE LET k0 == CHOOSE k \in valid : TRUE
                xvaries == \E k \in valid : xs[k] # xs[k0]
                yvaries == \E k \in valid : ys[k] # ys[k0]
            IN IF ~xvaries \/ ~yvaries THEN undefined
               ELSE LET k1 == CHOOSE k \in valid : xs[k] # xs[k0]
                        dx == xs[k1][1] - xs[k0][1]
                        dy == ys[k1][1] - ys[k0][1]
                        collinear ==
                            \A k \in valid :
                                (xs[k][1] - xs[k0][1]) * dy = dx * (ys[k][1] - ys[k0][1])
                    IN IF collinear THEN Num(Sign(dx) * Sign(dy)) ELSE Open

compute_correlations(df) ==
    LET grouped == groupby(df, "rolling_window")
        windows == sorted_keys(grouped)
    IN [n \in 1..Len(windows) |->
          LET group == grouped[windows[n]]
          IN [window |-> windows[n],
              avg_corr |-> corr(Column(group, "rolling_avg"), Column(group, "next_is_hit")),
              obp_corr |-> corr(Column(group, "rolling_obp"), Column(group, "next_is_on_base")),
              slg_corr |-> corr(Column(group, "rolling_slg"), Column(group, "next_total_bases"))]]

\* -------------------------------------------------------------------- state
VARIABLES
    pc,             \* where the pipeline stands
    data,           \* the event frame (labelled in place by get_pa_outcomes)
    max_window,     \* compute_rolling_stats' max_window
    rolling_df,     \* the rolling-observation table
    corr_df,        \* compute_correlations' result_df
    raised,         \* the exception that ended the pipeline, or "none"
    fpc,            \* where fetch_statcast_data stands
    args,           \* its arguments, and whether output_file exists
    year,           \* the outer loop's year
    month,          \* the inner loop's month
    attempt,        \* the retry loop's attempt
    header_written, \* header_written
    last,           \* how the latest statcast call on this chunk ended
    calls,          \* history: statcast calls made on this chunk
    chunks_done,    \* history: chunks whose retry loop has ended
    got_data        \* history: some call returned a non-empty frame

core == <<pc, data, max_window, rolling_df, corr_df, raised>>
fetch == <<fpc, args, year, month, attempt, header_written, last, calls, chunks_done, got_data>>
vars == <<core, fetch>>

\* fetch_statcast_data is not running
FetchIdle ==
    /\ fpc = "idle"
    /\ args = [start_year |-> 0, end_year |-> 0, max_retries |-> 0, file_exists |-> FALSE]
    /\ year = 0
    /\ month = 0
    /\ attempt = 0
    /\ header_written = FALSE
    /\ last = "none"
    /\ calls = 0
    /\ chunks_done = 0
    /\ got_data = FALSE

\* a frame of one batter's events: row k is dated dates[k] and ended in events[k]
Frame(batter, dates, events) ==
    [k \in 1..Len(events) |->
        [index |-> k, batter |-> batter, game_date |-> dates[k], events |-> events[k]]]

\* ------------------------------------------- the functions called on a frame
UnitEvents == {"field_out", "walk", "double"}

\* hit outcomes 1,0,1,1,0,0,1 on seven successive dates
ExampleFrame ==
    Frame(1, <<1, 2, 3, 4, 5, 6, 7>>,
          <<"single", "field_out", "single", "single", "field_out", "field_out", "single">>)

UnitFrames ==
    {ExampleFrame} \cup
    UNION {{Frame(1, d, e) : d \in [1..n -> 1..MaxDate], e \in [1..n -> UnitEvents]} :
           n \in 0..MaxLen}

InitUnit ==
    /\ pc = "start"
    /\ data \in UnitFrames
    /\ max_window = MaxWin
    /\ rolling_df = <<>>
    /\ corr_df = <<>>
    /\ raised = "none"
    /\ FetchIdle

\* get_pa_outcomes(df)
Label ==
    /\ pc = "start"
    /\ data' = get_pa_outcomes(data)
    /\ pc' = "labelled"
    /\ UNCHANGED <<max_window, rolling_df, corr_df, raised, fetch>>

\* compute_rolling_stats(df, max_window)
Roll ==
    /\ pc = "labelled"
    /\ \E table \in compute_rolling_stats(data, max_window) : rolling_df' = table
    /\ pc' = "rolled"
    /\ UNCHANGED <<data, max_window, corr_df, raised, fetch>>

\* compute_correlations(df)
Correlate ==
    /\ pc \in {"rolled", "processed"}
    /\ corr_df' = compute_correlations(rolling_df)
    /\ pc' = "correlated"
    /\ UNCHANGED <<data, max_window, rolling_df, raised, fetch>>

NextUnit == Label \/ Roll \/ Correlate

SpecUnit == InitUnit /\ [][NextUnit]_vars

\* --------------------------------------------- properties of the unit level
Max(a, b) == IF a >= b THEN a ELSE b
Rolled == pc \in {"rolled", "correlated"}

\* the timeline in the order compute_rolling_stats used: the events behind the
\* rows of the first window, by their index labels
Timeline == [i \in 1..Len(data) |-> data[rolling_df[i].index]]

\* the sum of column c of timeline T over the w positions ending at i
WindowSum(T, c, i, w) == SumRange([j \in 1..Len(T) |-> T[j][c]], i - w + 1, i)

\* the row of position i (1-based) in the pass of window w over L events
RowOf(w, i, L) == rolling_df[(w - 1) * L + i]

\* C1: compute_rolling_stats emits, per window W in 1..max_window and per
\* position i of the chronologically ordered timeline, one row whose rolling
\* statistics are the sums of the signals over the W positions ending at i
\* divided by W once W positions exist (NaN before), and whose targets are the
\* signals of position i+1 (NaN on the last position); for hit outcomes
\* 1,0,1,1,0,0,1 and W = 3 the sums are 2 at the third and 1 at the sixth event.
C1_RollingRows ==
    Rolled =>
        LET L == Len(data)
            T == Timeline
        IN /\ Len(rolling_df) = L * max_window
           /\ {rolling_df[i].index : i \in 1..L} = {data[k].index : k \in 1..L}
           /\ \A i \in 1..(L - 1) : T[i].game_date <= T[i + 1].game_date
           /\ \A w \in 1..max_window : \A i \in 1..L :
                LET row == RowOf(w, i, L)
                IN /\ row.index = T[i].index
                   /\ row.player_id = T[i].batter
                   /\ row.game_date = T[i].game_date
                   /\ row.rolling_window = w
                   /\ row.rolling_avg =
                        IF i >= w THEN Mean(WindowSum(T, "is_hit", i, w), w) ELSE NaN
                   /\ row.rolling_obp =
                        IF i >= w THEN Mean(WindowSum(T, "is_on_base", i, w), w) ELSE NaN
                   /\ row.rolling_slg =
                        IF i >= w THEN Mean(WindowSum(T, "total_bases", i, w), w) ELSE NaN
                   /\ row.next_is_hit = IF i < L THEN Num(T[i + 1].is_hit) ELSE NaN
                   /\ row.next_is_on_base = IF i < L THEN Num(T[i + 1].is_on_base) ELSE NaN
                   /\ row.next_total_bases = IF i < L THEN Num(T[i + 1].total_bases) ELSE NaN
           /\ (data = get_pa_outcomes(ExampleFrame) /\ max_window >= 3 =>
                 /\ RowOf(3, 3, 7).rolling_avg = Mean(2, 3)
                 /\ RowOf(3, 6, 7).rolling_avg = Mean(1, 3))

\* C1 witness: the example timeline has been rolled with its third window
C1_Witness ==
    /\ pc = "rolled"
    /\ data = get_pa_outcomes(ExampleFrame)
    /\ max_window >= 3
    /\ RowOf(3, 3, 7).rolling_avg = Mean(2, 3)
    /\ RowOf(3, 2, 7).rolling_avg = NaN
    /\ RowOf(3, 7, 7).next_is_hit = NaN

\* C6: within a timeline the events are ascending by game_date and events of
\* equal game_date keep their original record order, so position i and its
\* next event are determined by the input order.
C6_StableOrder ==
    Rolled =>
        \A i \in 1..Len(data) : \A j \in 1..Len(data) :
            i < j =>
                \/ Timeline[i].game_date < Timeline[j].game_date
                \/ /\ Timeline[i].game_date = Timeline[j].game_date
                   /\ Timeline[i].index < Timeline[j].index

\* C8: among the L rows of a window W the rolling statistic is defined on
\* max(0, L-W+1) rows and the next-outcome target on max(0, L-1) rows.
C8_Support ==
    Rolled =>
        LET L == Len(data)
            defined(w, c) == {i \in 1..L : notna(RowOf(w, i, L)[c])}
        IN \A w \in 1..max_window :
             /\ \A c \in {"rolling_avg", "rolling_obp", "rolling_slg"} :
                    Cardinality(defined(w, c)) = Max(0, L - w + 1)
             /\ \A c \in {"next_is_hit", "next_is_on_base", "next_total_bases"} :
                    Cardinality(defined(w, c)) = Max(0, L - 1)

\* C8 witness: two events under a window of three (no statistic defined there,
\* one target defined) next to the window of one (both statistics defined)
C8_Witness ==
    /\ pc = "rolled"
    /\ Len(data) = 2
    /\ max_window >= 3
    /\ \A i \in 1..2 : RowOf(3, i, 2).rolling_avg = NaN /\ notna(RowOf(1, i, 2).rolling_avg)
    /\ notna(RowOf(3, 1, 2).next_is_hit)

\* the three correlations: operand, target, output column
Metrics ==
    {<<"rolling_avg", "next_is_hit", "avg_corr">>,
     <<"rolling_obp", "next_is_on_base", "obp_corr">>,
     <<"rolling_slg", "next_total_bases", "slg_corr">>}

\* the rows of window w where both cells of metric m are present
Pairs(w, m) ==
    {k \in 1..Len(rolling_df) :
        /\ rolling_df[k].rolling_window = w
        /\ notna(rolling_df[k][m[1]])
        /\ notna(rolling_df[k][m[2]])}

Constant(rows, c) == \A k \in rows : \A j \in rows : rolling_df[k][c] = rolling_df[j][c]

Degenerate(w, m) ==
    \/ Cardinality(Pairs(w, m)) < 2
    \/ Constant(Pairs(w, m), m[1])
    \/ Constant(Pairs(w, m), m[2])

LabelEvents ==
    {"single", "double", "triple", "home_run", "walk", "hit_by_pitch",
     "field_out", "strikeout", "intent_walk", NoEvent}

InitLabel ==
    /\ pc = "start"
    /\ data \in UNION {{Frame(1, [k \in 1..n |-> 1], e) : e \in [1..n -> LabelEvents]} :
                       n \in 0..MaxLabelLen}
    /\ max_window = MaxWin
    /\ rolling_df = <<>>
    /\ corr_df = <<>>
    /\ raised = "none"
    /\ FetchIdle

NextLabel == Label

SpecLabel == InitLabel /\ [][NextLabel]_vars

\* C9: get_pa_outcomes is total: is_hit is 1 exactly on single, double, triple
\* and home_run, is_on_base is 1 exactly on those and on walk and hit_by_pitch,
\* total_bases is 1, 2, 3, 4 on single, double, triple, home_run and 0
\* otherwise; every other or absent category gives 0, 0, 0 without an error;
\* is_hit = 1 implies is_on_base = 1 and total_bases > 0 implies is_hit = 1.
C9_Labelling ==
    pc = "labelled" =>
        /\ raised = "none"
        /\ \A k \in 1..Len(data) :
            LET r == data[k]
                e == r.events
            IN /\ r.is_hit \in {0, 1}
               /\ r.is_on_base \in {0, 1}
               /\ r.is_hit = 1 <=> e \in {"single", "double", "triple", "home_run"}
               /\ r.is_on_base = 1 <=>
                    e \in {"single", "double", "triple", "home_run", "walk", "hit_by_pitch"}
               /\ r.total_bases =
                    CASE e = "single" -> 1
                      [] e = "double" -> 2
                      [] e = "triple" -> 3
                      [] e = "home_run" -> 4
                      [] OTHER -> 0
               /\ r.is_hit = 1 => r.is_on_base = 1
               /\ r.total_bases > 0 => r.is_hit = 1

\* C9 witness: a labelled frame holding an absent category, a category outside
\* the mapping, a non-hit on-base event and a home run
C9_Witness ==
    /\ pc = "labelled"
    /\ \E k \in 1..Len(data) :
        data[k].events = NoEvent /\ data[k].is_on_base = 0 /\ data[k].total_bases = 0
    /\ \E k \in 1..Len(data) :
        data[k].events = "home_run" /\ data[k].total_bases = 4

\* ------------------------------------------------------ fetch_statcast_data
MaxYears == 2        \* end_year - start_year + 1 is at most MaxYears
MaxRetries == 3      \* max_retries is at most MaxRetries
StartYear == 2013
FirstMonth == 3
LastMonth == 10

InitFetch ==
    /\ pc = "idle"
    /\ data = <<>>
    /\ max_window = 0
    /\ rolling_df = <<>>
    /\ corr_df = <<>>
    /\ raised = "none"
    /\ fpc = "entry"
    /\ args \in [start_year : {StartYear},
                 end_year : (StartYear - 1)..(StartYear + MaxYears - 1),
                 max_retries : 1..MaxRetries,
                 file_exists : BOOLEAN]
    /\ year = 0
    /\ month = 0
    /\ attempt = 0
    /\ header_written = FALSE
    /\ last = "none"
    /\ calls = 0
    /\ chunks_done = 0
    /\ got_data = FALSE

\* the statement after both loops: raise when nothing was written
finish(written) == IF written THEN "returned" ELSE "RuntimeError"

\* the call, up to the first (year, month) chunk
FetchEnter ==
    /\ fpc = "entry"
    /\ IF args.file_exists
          THEN /\ fpc' = "returned"
               /\ UNCHANGED <<year, month, attempt>>
          ELSE IF args.start_year > args.end_year
          THEN /\ fpc' = finish(header_written)
               /\ UNCHANGED <<year, month, attempt>>
          ELSE /\ fpc' = "call"
               /\ year' = args.start_year
               /\ month' = FirstMonth
               /\ attempt' = 1
    /\ UNCHANGED <<core, args, header_written, last, calls, chunks_done, got_data>>

\* statcast returned a non-empty frame: append it, break
CallReturnsData ==
    /\ fpc = "call"
    /\ header_written' = TRUE
    /\ last' = "data"
    /\ calls' = calls + 1
    /\ got_data' = TRUE
    /\ fpc' = "chunk_end"
    /\ UNCHANGED <<core, args, year, month, attempt, chunks_done>>

\* statcast returned None or an empty frame: break
CallReturnsEmpty ==
    /\ fpc = "call"
    /\ last' = "empty"
    /\ calls' = calls + 1
    /\ fpc' = "chunk_end"
    /\ UNCHANGED <<core, args, year, month, attempt, header_written, chunks_done, got_data>>

\* a retry loop that runs once more than max_retries
retries_once_more(n, max) == n <= max

\* whether the except branch retries
retries(n, max) == n < max

\* statcast raised: sleep and retry, or give the chunk up
CallRaises ==
    /\ fpc = "call"
    /\ last' = "raised"
    /\ calls' = calls + 1
    /\ IF retries(attempt, args.max_retries)
          THEN attempt' = attempt + 1 /\ fpc' = "call"
          ELSE attempt' = attempt /\ fpc' = "chunk_end"
    /\ UNCHANGED <<core, args, year, month, header_written, chunks_done, got_data>>

\* the retry loop has ended: the next month, the next year, or the end
NextChunk ==
    /\ fpc = "chunk_end"
    /\ chunks_done' = chunks_done + 1
    /\ IF month < LastMonth
          THEN /\ month' = month + 1
               /\ year' = year
               /\ fpc' = "call"
               /\ attempt' = 1 /\ last' = "none" /\ calls' = 0
          ELSE IF year < args.end_year
          THEN /\ month' = FirstMonth
               /\ year' = year + 1
               /\ fpc' = "call"
               /\ attempt' = 1 /\ last' = "none" /\ calls' = 0
          ELSE /\ fpc' = finish(header_written)
               /\ UNCHANGED <<year, month, attempt, last, calls>>
    /\ UNCHANGED <<core, args, header_written, got_data>>

NextFetch == FetchEnter \/ CallReturnsData \/ CallReturnsEmpty \/ CallRaises \/ NextChunk

\* the function runs to its end: nothing in it waits on anything but the call
SpecFetch == InitFetch /\ [][NextFetch]_vars /\ WF_vars(NextFetch)

\* C10: with no output file, every (year, month) chunk is attempted at least
\* once and at most max_retries times, never again after an attempt that
\* returned (empty or not); a chunk whose attempts all raised is given up and
\* the loop goes on to the next chunk; the fetch always ends, and it ends with
\* RuntimeError exactly when no call returned a non-empty frame.
FetchDone == fpc \in {"returned", "RuntimeError"}
ChunkCount == (LastMonth - FirstMonth + 1) * (args.end_year - args.start_year + 1)

C10_State ==
    /\ calls <= args.max_retries
    /\ fpc = "chunk_end" =>
         /\ calls >= 1
         /\ last \in {"data", "empty"} \/ (last = "raised" /\ calls = args.max_retries)
    /\ FetchDone /\ ~args.file_exists =>
         /\ chunks_done = ChunkCount
         /\ fpc = "RuntimeError" <=> ~got_data

C10_Step ==
    /\ calls' > calls => last \notin {"data", "empty"}
    /\ fpc # "entry" /\ <<year, month>>' # <<year, month>> =>
         /\ fpc = "chunk_end"
         /\ \/ year' = year /\ month' = month + 1
            \/ year' = year + 1 /\ month = LastMonth /\ month' = FirstMonth
    /\ fpc = "chunk_end" =>
         /\ chunks_done' = chunks_done + 1
         /\ (fpc' = "call" /\ calls' = 0 /\ <<year, month>>' # <<year, month>>) \/ FetchDone'

C10_Fetch == [](C10_State) /\ [][C10_Step]_vars /\ <>FetchDone

\* C10 witness: a fetch that returned although its last chunk was given up
\* after max_retries (more than one) raising attempts
C10_Witness ==
    /\ fpc = "returned"
    /\ ~args.file_exists
    /\ last = "raised"
    /\ calls = args.max_retries
    /\ calls >= 2
    /\ chunks_done > LastMonth - FirstMonth + 1

\* ---------------------------------------------------- multi-player aggregator
MinEvents == 260
DefaultMaxWindow == 250

\* dropna(subset=the three targets): a row without its rolling statistic stays
dropna_targets_only(df) ==
    SelectSeq(df, LAMBDA r :
        notna(r.next_is_hit) /\ notna(r.next_is_on_base) /\ notna(r.next_total_bases))

\* a filter on truthiness: a row holding NaN or 0 goes
dropna_or_zero(df) ==
    SelectSeq(df, LAMBDA r :
        \A c \in {r.rolling_avg, r.rolling_obp, r.rolling_slg,
                  r.next_is_hit, r.next_is_on_base, r.next_total_bases} :
            notna(c) /\ c[1] # 0)

\* DataFrame.dropna(): the rows with no NaN cell (player_id, game_date and
\* rolling_window never hold one)
dropna(df) ==
    SelectSeq(df, LAMBDA r :
        /\ notna(r.rolling_avg) /\ notna(r.rolling_obp) /\ notna(r.rolling_slg)
        /\ notna(r.next_is_hit) /\ notna(r.next_is_on_base) /\ notna(r.next_total_bases))

\* the threshold compared with <= : a batter of exactly MinEvents events is skipped
too_short_or_equal(group) == Len(group) <= MinEvents

\* whether the loop skips a batter's group
too_short(group) == Len(group) < MinEvents

RECURSIVE rolling_lists(_, _, _)
\* the lists all_rolling may hold after the first n eligible batters
rolling_lists(grouped, eligible, n) ==
    IF n = 0 THEN {<<>>}
    ELSE {Append(all_rolling, stats) :
            all_rolling \in rolling_lists(grouped, eligible, n - 1),
            stats \in compute_rolling_stats(grouped[eligible[n]], DefaultMaxWindow)}

\* process_all_players(data): what it may raise or return.  pd.concat of an
\* empty list raises ValueError ("No objects to concatenate").
process_all_players(df) ==
    LET labelled == get_pa_outcomes(df)
        grouped == groupby(labelled, "batter")
        eligible == SelectSeq(sorted_keys(grouped), LAMBDA b : ~too_short(grouped[b]))
    IN {IF all_rolling = <<>>
           THEN [raised |-> "ValueError", final_df |-> <<>>]
           ELSE [raised |-> "none",
                 final_df |-> dropna(concat(all_rolling, 1, Len(all_rolling)))] :
        all_rolling \in rolling_lists(grouped, eligible, Len(eligible))}

MaxExtra == 1        \* the longest timeline has MinEvents + MaxExtra events
MaxShort == 2        \* the short timelines have 0..MaxShort events

\* the category of a batter's k-th record under an outcome pattern
PatternEvent(pattern, k) ==
    CASE pattern = "hitless" -> "field_out"
      [] pattern = "always_hit" -> "single"
      [] pattern = "mixed" ->
            <<"single", "field_out", "walk", "home_run", NoEvent, "double",
              "strikeout", "hit_by_pitch", "triple", "field_out">>[((k - 1) % 10) + 1]

\* a batter's records as Statcast delivers them: newest first, one per date,
\* dated 1..len
Records(batter, len, pattern) ==
    Frame(batter, [k \in 1..len |-> len - k + 1], [k \in 1..len |-> PatternEvent(pattern, k)])

\* a frame with the index labels of a frame just read: 1, 2, ...
reset_index(df) == [k \in 1..Len(df) |-> [df[k] EXCEPT !.index = k]]

Dataset(a, b) == reset_index(Records(1, a[1], a[2]) \o Records(2, b[1], b[2]))

\* batter 1: no event, a short, an almost long enough or a long enough
\* timeline, hitless or mixed; batter 2, always hitting: absent, one event,
\* one event too few, or long enough
Lengths == 1..MaxShort \cup {MinEvents - 1} \cup MinEvents..(MinEvents + MaxExtra)
Absent == <<0, "hitless">>
Options1 == {Absent} \cup (Lengths \X {"hitless", "mixed"})
Options2 == {Absent} \cup ({1, MinEvents - 1, MinEvents + 1} \X {"always_hit"})

Datasets == {Dataset(a, b) : a \in Options1, b \in Options2}

InitPipeline ==
    /\ pc = "start"
    /\ data \in Datasets
    /\ max_window = DefaultMaxWindow
    /\ rolling_df = <<>>
    /\ corr_df = <<>>
    /\ raised = "none"
    /\ FetchIdle

\* process_all_players(data).  game_date is kept as the day number that
\* pd.to_datetime orders the dates by; the frame handed in is labelled in place.
Process ==
    /\ pc = "start"
    /\ \E out \in process_all_players(data) :
        /\ raised' = out.raised
        /\ rolling_df' = out.final_df
        /\ pc' = IF out.raised = "none" THEN "processed" ELSE "raised"
    /\ data' = get_pa_outcomes(data)
    /\ UNCHANGED <<max_window, corr_df, fetch>>

NextPipeline == Process \/ Correlate

SpecPipeline == InitPipeline /\ [][NextPipeline]_vars

\* ------------------------------------------- properties of the aggregator
Processed == pc \in {"processed", "raised"}
BatterIds == {data[k].batter : k \in 1..Len(data)}
EventCount(b) == Cardinality({k \in 1..Len(data) : data[k].batter = b})
Qualifying == {b \in BatterIds : EventCount(b) >= 260}

\* the rows one timeline of L > 250 events keeps: L - w per window w of 1..250
KeptRows(L) == 250 * L - (250 * 251) \div 2
\* those of the windows before w
KeptBefore(L, w) == (w - 1) * L - ((w - 1) * w) \div 2

\* the rows of the qualifying batters up to b, and below b
KeptUpTo(b) ==
    SumRange([c \in 1..b |-> IF c \in Qualifying THEN KeptRows(EventCount(c)) ELSE 0], 1, b)
RowsBelow(b) == KeptUpTo(b - 1)
LastBatter == IF BatterIds = {} THEN 0 ELSE CHOOSE b \in BatterIds : \A c \in BatterIds : c <= b

\* C3: the table process_all_players returns holds, per batter of 260 or more
\* events and per window W of 1..250, exactly the positions W-1 <= i <= L-2
\* (0-based; L-W rows): the rows whose trailing window and next event both
\* exist, every cell present, none of an absent statistic turned into 0.
\* (The inputs date a batter's events 1..L, so position i is the event dated i+1.)
C3_KeptRows ==
    pc = "processed" =>
        /\ Len(rolling_df) = KeptUpTo(LastBatter)
        /\ \A b \in Qualifying :
            LET L == EventCount(b)
                base == RowsBelow(b)
            IN \A w \in 1..250 : \A i \in w..(L - 1) :
                LET r == rolling_df[base + KeptBefore(L, w) + (i - w + 1)]
                IN /\ r.player_id = b
                   /\ r.rolling_window = w
                   /\ r.game_date = i
                   /\ data[r.index].batter = b
                   /\ data[r.index].game_date = i
                   /\ Len(r.rolling_avg) = 2 /\ r.rolling_avg[2] = w
                   /\ Len(r.rolling_obp) = 2 /\ r.rolling_obp[2] = w
                   /\ Len(r.rolling_slg) = 2 /\ r.rolling_slg[2] = w
                   /\ Len(r.next_is_hit) = 1
                   /\ Len(r.next_is_on_base) = 1
                   /\ Len(r.next_total_bases) = 1

\* C3 witness: a returned table whose batter of 261 events has, for window
\* 250, exactly the 11 positions 249..259
C3_Witness ==
    /\ pc = "processed"
    /\ 1 \in Qualifying
    /\ EventCount(1) = 261
    /\ rolling_df[KeptBefore(261, 250) + 1].rolling_window = 250
    /\ rolling_df[KeptBefore(261, 250) + 1].game_date = 250
    /\ rolling_df[KeptRows(261)].game_date = 260
    /\ rolling_df[KeptBefore(261, 250)].rolling_window = 249

RowsFor(b) == {k \in 1..Len(rolling_df) : rolling_df[k].player_id = b}

\* C4: a batter has rows in the table exactly when the batter has 260 or more
\* events: none with 259, one at least for window 1 with 260; a short batter is
\* skipped without an error and without changing the rows of the others.
C4_Threshold ==
    Processed =>
        /\ Qualifying # {} => raised = "none"
        /\ \A b \in BatterIds :
            /\ RowsFor(b) # {} <=> EventCount(b) >= 260
            /\ EventCount(b) >= 260 =>
                /\ \E k \in RowsFor(b) : rolling_df[k].rolling_window = 1
                /\ Cardinality(RowsFor(b)) = KeptRows(EventCount(b))

\* C4 witness: a batter of 259 events without a row beside a batter of exactly
\* 260 events with rows, and no error
C4_Witness ==
    /\ pc = "processed"
    /\ raised = "none"
    /\ \E b \in BatterIds : EventCount(b) = 259 /\ RowsFor(b) = {}
    /\ \E b \in BatterIds : EventCount(b) = 260 /\ RowsFor(b) # {}

\* C5: when no batter qualifies, process_all_players tells its caller so with
\* an explicit empty-result condition: it neither returns as if it had
\* succeeded nor fails with an error of another kind.
C5_EmptyResult ==
    Processed /\ Qualifying = {} => raised = "EmptyResult"

\* the end-to-end scenario: batter 1 hitless on each of 261 events, batter 2
\* hitting on each of 261 events
HitlessAndHitting ==
    /\ BatterIds = {1, 2}
    /\ EventCount(1) = 261
    /\ EventCount(2) = 261
    /\ \A k \in 1..Len(data) : data[k].is_hit = (IF data[k].batter = 1 THEN 0 ELSE 1)

HitlessRowsZero == \A k \in RowsFor(1) : rolling_df[k].rolling_avg = Mean(0, rolling_df[k].rolling_window)

CorrRow(w) == CHOOSE n \in 1..Len(corr_df) : corr_df[n].window = w

\* C2 as stated: in the end-to-end scenario the rows kept for the hitless
\* batter all have rolling_avg 0, and avg_corr is undefined for window 1 and
\* for window 2.
C2_AvgCorrUndefined ==
    pc = "correlated" /\ HitlessAndHitting =>
        /\ HitlessRowsZero
        /\ \A w \in {1, 2} :
            /\ \E n \in 1..Len(corr_df) : corr_df[n].window = w
            /\ corr_df[CorrRow(w)].avg_corr = NaN

\* C2, amended: in the end-to-end scenario the rows kept for the hitless
\* batter all have rolling_avg 0, and avg_corr is 1 for window 1 and for
\* window 2: the pooled rows of the two batters take the values 0 and 1 in
\* both operands, so neither has zero variance.
C2_AvgCorrIsOne ==
    pc = "correlated" /\ HitlessAndHitting =>
        /\ HitlessRowsZero
        /\ \A w \in {1, 2} :
            /\ \E n \in 1..Len(corr_df) : corr_df[n].window = w
            /\ corr_df[CorrRow(w)].avg_corr = Num(1)

\* C2 witness: the end-to-end scenario has been correlated, with rows of both
\* batters in the windows 1 and 2
C2_Witness ==
    /\ pc = "correlated"
    /\ HitlessAndHitting
    /\ \A b \in {1, 2} : \A w \in {1, 2} :
        \E k \in RowsFor(b) : rolling_df[k].rolling_window = w
    /\ corr_df[1].window = 1
    /\ corr_df[2].window = 2

====
